---- MODULE Spec2Model ----
(***************************************************************************)
(* audioleft: a CLI that extracts the audio track of a video file with     *)
(* ffmpeg.  The model covers src/audioleft/extractor.py (get_audio_codec,  *)
(* get_extension_for_codec, extract_audio, get_output_path) and            *)
(* src/audioleft/__main__.py (main).                                       *)
(*                                                                         *)
(* A Python str is a sequence of one-character strings, so that the        *)
(* pathlib conversions (parsing, stem, suffix, with_suffix, str) are       *)
(* computed character by character the way pathlib computes them.          *)
(***************************************************************************)
EXTENDS Integers, Sequences, FiniteSets, TLC

(***************************************************************************)
(* Bounds of the model.                                                    *)
(***************************************************************************)
\* longest input path enumerated character by character
MaxLen == 4
\* longest --output / output_dir value enumerated character by character
MaxOutLen == 2
\* longest output_dir value enumerated character by character
MaxDirLen == 1
\* number of extract_audio calls a library client makes in a row
MaxCalls == 2

\* the characters paths are built from: separator, dot, and letters that
\* spell ".wav" plus one more letter
Alphabet == {"/", ".", "w", "a", "v", "m"}

StrUpTo(n) == UNION {[1..k -> Alphabet] : k \in 0..n}

\* Python's None / a given value, for Optional[str] arguments
None == [given |-> FALSE, val |-> <<>>]
Some(s) == [given |-> TRUE, val |-> s]

\* a few literal paths used as inputs beside the enumerated ones
movie_mkv == <<"m","o","v","i","e",".","m","k","v">>
movie_wav == <<"m","o","v","i","e",".","w","a","v">>
clip_tar_gz == <<"a","/","c",".","t","a","r",".","g","z">>
m_wav == <<"m",".","w","a","v">>
out_mp3 == <<"o","u","t","/","m",".","m","p","3">>
out_WAV == <<"m",".","W","A","V">>
out_dir == <<"o","u","t">>
abs_dir == <<"/","o","/","d">>

dot_wav == <<".","w","a","v">>

(***************************************************************************)
(* pathlib.PurePosixPath, as far as the program uses it.                   *)
(***************************************************************************)
HasSep(s) == \E i \in 1..Len(s) : s[i] = "/"

FirstSep(s) == CHOOSE i \in 1..Len(s) : s[i] = "/" /\ \A j \in 1..(i-1) : s[j] # "/"

\* str.split('/')
RECURSIVE Split(_)
Split(s) ==
    IF ~HasSep(s) THEN <<s>>
    ELSE LET i == FirstSep(s)
         IN <<SubSeq(s, 1, i-1)>> \o Split(SubSeq(s, i+1, Len(s)))

\* number of leading separators
RECURSIVE LeadingSeps(_)
LeadingSeps(s) ==
    IF s # <<>> /\ Head(s) = "/" THEN 1 + LeadingSeps(Tail(s)) ELSE 0

\* _PosixFlavour.splitroot: exactly two leading slashes are kept as the root
SplitRoot(s) ==
    LET n == LeadingSeps(s)
    IN IF n = 0 THEN <<>> ELSE IF n = 2 THEN <<"/","/">> ELSE <<"/">>

IsComponent(c) == c # <<>> /\ c # <<".">>

\* Path(s): the root and the components, empty and "." components dropped
PathOf(s) ==
    [root  |-> SplitRoot(s),
     parts |-> SelectSeq(Split(SubSeq(s, LeadingSeps(s) + 1, Len(s))), IsComponent)]

RECURSIVE Join(_)
Join(parts) ==
    IF parts = <<>> THEN <<>>
    ELSE IF Len(parts) = 1 THEN parts[1]
    ELSE parts[1] \o <<"/">> \o Join(Tail(parts))

\* str(path)
StrOf(p) ==
    IF p.root = <<>> /\ p.parts = <<>> THEN <<".">> ELSE p.root \o Join(p.parts)

\* path.name
Name(p) == IF p.parts = <<>> THEN <<>> ELSE p.parts[Len(p.parts)]

\* name.rfind('.') as a 1-based index, 0 when there is no dot
RFindDot(name) ==
    IF \E i \in 1..Len(name) : name[i] = "."
    THEN CHOOSE i \in 1..Len(name) :
            name[i] = "." /\ \A j \in (i+1)..Len(name) : name[j] # "."
    ELSE 0

\* the dot splits the name only when it is neither first nor last
SplitsName(name) == RFindDot(name) > 1 /\ RFindDot(name) < Len(name)

\* path.suffix
Suffix(p) ==
    LET name == Name(p)
    IN IF SplitsName(name) THEN SubSeq(name, RFindDot(name), Len(name)) ELSE <<>>

\* path.stem
Stem(p) ==
    LET name == Name(p)
    IN IF SplitsName(name) THEN SubSeq(name, 1, RFindDot(name) - 1) ELSE name

\* path.parent
Parent(p) ==
    IF p.parts = <<>> THEN p
    ELSE [root |-> p.root, parts |-> SubSeq(p.parts, 1, Len(p.parts) - 1)]

\* path / name, for a relative single-component name
Child(p, name) == [root |-> p.root, parts |-> Append(p.parts, name)]

\* path.with_suffix(suffix): ok = FALSE stands for the ValueError pathlib
\* raises for a path with an empty name
WithSuffix(p, suffix) ==
    LET name == Name(p)
        old  == Suffix(p)
        new  == IF old = <<>> THEN name \o suffix
                ELSE SubSeq(name, 1, Len(name) - Len(old)) \o suffix
    IN IF name = <<>> THEN [ok |-> FALSE, path |-> p]
       ELSE [ok |-> TRUE, path |-> Child(Parent(p), new)]

\* s.endswith(t)
EndsWith(s, t) ==
    Len(s) >= Len(t) /\ SubSeq(s, Len(s) - Len(t) + 1, Len(s)) = t

(***************************************************************************)
(* State.  Each specification below drives one part of the program and     *)
(* leaves the variables of the other parts at their initial values.        *)
(***************************************************************************)
VARIABLES
    \* a caller of get_output_path: its arguments and the returned str
    pathArg, dirArg, pathRet,
    \* what running ffprobe on the input does, and how get_audio_codec ended
    probeEnv, codecRet,
    \* a caller of get_extension_for_codec: its argument and the returned str
    extArg, extRet,
    \* the file system as extract_audio sees it (the kind of the input path,
    \* of the output's parent and of the output), the ffmpeg installation,
    \* and the commands of the processes spawned so far
    fs, tool, spawned,
    \* the calls of extract_audio made so far: arguments and how each ended
    calls,
    \* a library client of extract_audio: the arguments it passes
    exIn, exOut,
    \* a run of main: the command line, the position in main, the resolved
    \* output path, how the try block ended, the process exit status
    \* (-1 while running) and what was printed
    argv, pc, output_path, raised, exit_code, stdout, stderr

pathVars == <<pathArg, dirArg, pathRet>>
codecVars == <<probeEnv, codecRet, extArg, extRet>>
envVars == <<fs, tool, spawned, calls>>
libVars == <<exIn, exOut>>
cliVars == <<argv, pc, output_path, raised, exit_code, stdout, stderr>>

vars == <<pathVars, codecVars, envVars, libVars, cliVars>>

(***************************************************************************)
(* How a Python call ends: it returns a value or raises an exception whose *)
(* message is the sequence of the fragments the f-string is built from.    *)
(***************************************************************************)
JNull == [t |-> "null", v |-> ""]

NotCalled == [kind |-> "none", exc |-> "", msg |-> <<>>, value |-> JNull]
Return(v) == [kind |-> "return", exc |-> "", msg |-> <<>>, value |-> v]
Raise(exc, msg) == [kind |-> "raise", exc |-> exc, msg |-> msg, value |-> JNull]

\* the second line of both "not found" messages
install_guidance == "  sudo apt-get install ffmpeg"

(***************************************************************************)
(* extractor.get_output_path                                               *)
(***************************************************************************)
\* __file__ of extractor.py in an installation rooted at /r
module_file == <<"/","r","/","s","r","c","/","a","u","d","i","o","l","e","f","t","/","e","x","t","r","a","c","t","o","r",".","p","y">>

audio_data == <<"a","u","d","i","o","_","d","a","t","a">>

\* Path(__file__).parent.parent.parent / 'audio_data'
default_output_dir == Child(Parent(Parent(Parent(PathOf(module_file)))), audio_data)

\* Python truthiness of an Optional[str]: None and '' are false
Truthy(opt) == opt.given /\ opt.val # <<>>

\* a resolver that appends to the whole file name instead of the stem
get_output_path_keep_name(input_path, output_dir) ==
    LET output_name == Name(PathOf(input_path)) \o dot_wav
    IN IF Truthy(output_dir)
       THEN StrOf(Child(PathOf(output_dir.val), output_name))
       ELSE StrOf(Child(default_output_dir, output_name))

get_output_path(input_path, output_dir) ==
    LET input_file  == PathOf(input_path)
        output_name == Stem(input_file) \o dot_wav
    IN IF Truthy(output_dir)
       THEN StrOf(Child(PathOf(output_dir.val), output_name))
       ELSE StrOf(Child(default_output_dir, output_name))

InputPaths == StrUpTo(MaxLen) \cup {movie_mkv, movie_wav, clip_tar_gz, m_wav}

OutputDirs == {None} \cup {Some(d) : d \in StrUpTo(MaxDirLen) \cup {out_dir, abs_dir}}

PathIdle ==
    /\ pathArg = <<>>
    /\ dirArg = None
    /\ pathRet = None

CodecIdle ==
    /\ probeEnv = [present |-> FALSE, exit |-> 0, stdout |-> "", stderr |-> ""]
    /\ codecRet = NotCalled
    /\ extArg = ""
    /\ extRet = ""

EnvIdle ==
    /\ fs = [input |-> "missing", parent |-> "missing", output |-> "missing"]
    /\ tool = [present |-> FALSE, outcome |-> "ok"]
    /\ spawned = <<>>
    /\ calls = <<>>

LibIdle ==
    /\ exIn = <<>>
    /\ exOut = <<>>

CliIdle ==
    /\ argv = [help |-> FALSE, extra |-> FALSE, input |-> None, output |-> None]
    /\ pc = "idle"
    /\ output_path = None
    /\ raised = NotCalled
    /\ exit_code = -1
    /\ stdout = <<>>
    /\ stderr = <<>>

PathInit ==
    /\ pathArg \in InputPaths
    /\ dirArg \in OutputDirs
    /\ pathRet = None
    /\ CodecIdle /\ EnvIdle /\ LibIdle /\ CliIdle

\* the caller invokes get_output_path(pathArg, dirArg)
CallGetOutputPath ==
    /\ ~pathRet.given
    /\ pathRet' = Some(get_output_path(pathArg, dirArg))
    /\ UNCHANGED <<pathArg, dirArg, codecVars, envVars, libVars, cliVars>>

PathNext == CallGetOutputPath

SpecPath == PathInit /\ [][PathNext]_vars

(***************************************************************************)
(* C4: get_output_path returns a path whose file name is the input's stem  *)
(* followed by .wav, whatever the input's extension; without an output     *)
(* directory (None, or the empty string, which the code treats alike) the  *)
(* path lies in the default directory audio_data, with one it lies in that *)
(* directory; movie.mkv gives <default_dir>/movie.wav.                     *)
(***************************************************************************)
C4_StemPlusWav ==
    pathRet.given =>
        LET r == PathOf(pathRet.val)
        IN /\ Name(r) = Stem(PathOf(pathArg)) \o dot_wav
           /\ Stem(PathOf(pathArg)) # <<>> => Suffix(r) = dot_wav
           /\ EndsWith(pathRet.val, dot_wav)
           /\ Truthy(dirArg) => Parent(r) = PathOf(dirArg.val)
           /\ ~Truthy(dirArg) =>
                 /\ Parent(r) = default_output_dir
                 /\ Name(Parent(r)) = audio_data
           /\ (pathArg = movie_mkv /\ ~Truthy(dirArg)) =>
                 pathRet.val = StrOf(default_output_dir) \o <<"/">> \o movie_wav

C4_Witness ==
    /\ pathRet.given
    /\ pathArg = clip_tar_gz
    /\ dirArg = Some(out_dir)
    /\ pathRet.val = out_dir \o <<"/","c",".","t","a","r",".","w","a","v">>

(***************************************************************************)
(* JSON values (json.loads results): null, numbers, strings, lists and     *)
(* objects, each tagged with its type.                                     *)
(***************************************************************************)
JNum(n) == [t |-> "num", v |-> n]
JStr(x) == [t |-> "str", v |-> x]
JList(items) == [t |-> "list", v |-> items]
JObj(fields) == [t |-> "obj", v |-> fields]
JEmptyObj == [t |-> "obj", v |-> <<>>]

\* Python truthiness: None, 0, '', [] and {} are false
JTruthy(j) ==
    CASE j.t = "null" -> FALSE
      [] j.t = "num"  -> j.v # "0"
      [] j.t = "str"  -> j.v # ""
      [] j.t = "list" -> j.v # <<>>
      [] j.t = "obj"  -> DOMAIN j.v # {}

\* dict.get(key, default)
DictGet(obj, key, default) ==
    IF key \in DOMAIN obj.v THEN obj.v[key] ELSE default

(***************************************************************************)
(* extractor.get_extension_for_codec                                       *)
(***************************************************************************)
codec_map ==
    [c \in {"aac", "mp3", "opus", "vorbis", "flac", "pcm_s16le", "pcm_s24le",
            "pcm_s32le", "alac", "ac3", "eac3", "dts", "truehd"} |->
        CASE c = "aac"       -> ".m4a"
          [] c = "mp3"       -> ".mp3"
          [] c = "opus"      -> ".opus"
          [] c = "vorbis"    -> ".ogg"
          [] c = "flac"      -> ".flac"
          [] c = "pcm_s16le" -> ".wav"
          [] c = "pcm_s24le" -> ".wav"
          [] c = "pcm_s32le" -> ".wav"
          [] c = "alac"      -> ".m4a"
          [] c = "ac3"       -> ".ac3"
          [] c = "eac3"      -> ".eac3"
          [] c = "dts"       -> ".dts"
          [] c = "truehd"    -> ".thd"]

\* a resolver that derives the extension from the codec name when the
\* table has no entry
get_extension_for_codec_no_fallback(codec) ==
    IF codec \in DOMAIN codec_map THEN codec_map[codec] ELSE "." \o codec

get_extension_for_codec(codec) ==
    IF codec \in DOMAIN codec_map THEN codec_map[codec] ELSE ".mka"

\* codec names to resolve: the table's keys and names that are not in it
CodecNames ==
    DOMAIN codec_map \cup {"unknown", "", "AAC", "wmav2", "pcm_u8", "mp2", ".mka"}

(***************************************************************************)
(* extractor.get_audio_codec                                               *)
(***************************************************************************)
stream_text(codec) == "{\"streams\": [{\"codec_name\": \"" \o codec \o "\"}]}"

\* json.loads on the texts ffprobe's standard output is drawn from:
\* ok = FALSE stands for json.JSONDecodeError
json_cases ==
    {[text |-> stream_text(c), ok |-> TRUE,
      value |-> JObj([streams |-> JList(<<JObj([codec_name |-> JStr(c)])>>)])] :
        c \in CodecNames}
    \cup
    {[text |-> "", ok |-> FALSE, value |-> JNull],
     [text |-> "{", ok |-> FALSE, value |-> JNull],
     [text |-> "{\"streams\": [", ok |-> FALSE, value |-> JNull],
     [text |-> "not json", ok |-> FALSE, value |-> JNull],
     [text |-> "null", ok |-> TRUE, value |-> JNull],
     [text |-> "0", ok |-> TRUE, value |-> JNum("0")],
     [text |-> "\"aac\"", ok |-> TRUE, value |-> JStr("aac")],
     [text |-> "[]", ok |-> TRUE, value |-> JList(<<>>)],
     [text |-> "[{\"codec_name\": \"aac\"}]", ok |-> TRUE,
      value |-> JList(<<JObj([codec_name |-> JStr("aac")])>>)],
     [text |-> "{}", ok |-> TRUE, value |-> JEmptyObj],
     [text |-> "{\"programs\": []}", ok |-> TRUE,
      value |-> JObj([programs |-> JList(<<>>)])],
     [text |-> "{\"streams\": []}", ok |-> TRUE,
      value |-> JObj([streams |-> JList(<<>>)])],
     [text |-> "{\"streams\": null}", ok |-> TRUE,
      value |-> JObj([streams |-> JNull])],
     [text |-> "{\"streams\": \"\"}", ok |-> TRUE,
      value |-> JObj([streams |-> JStr("")])],
     [text |-> "{\"streams\": \"aac\"}", ok |-> TRUE,
      value |-> JObj([streams |-> JStr("aac")])],
     [text |-> "{\"streams\": 0}", ok |-> TRUE,
      value |-> JObj([streams |-> JNum("0")])],
     [text |-> "{\"streams\": 1}", ok |-> TRUE,
      value |-> JObj([streams |-> JNum("1")])],
     [text |-> "{\"streams\": {}}", ok |-> TRUE,
      value |-> JObj([streams |-> JEmptyObj])],
     [text |-> "{\"streams\": {\"0\": {\"codec_name\": \"aac\"}}}", ok |-> TRUE,
      value |-> JObj([streams |->
                  JObj([x \in {"0"} |-> JObj([codec_name |-> JStr("aac")])])])],
     [text |-> "{\"streams\": [{}]}", ok |-> TRUE,
      value |-> JObj([streams |-> JList(<<JEmptyObj>>)])],
     [text |-> "{\"streams\": [{\"index\": 1}]}", ok |-> TRUE,
      value |-> JObj([streams |-> JList(<<JObj([index |-> JNum("1")])>>)])],
     [text |-> "{\"streams\": [{\"codec_name\": null}]}", ok |-> TRUE,
      value |-> JObj([streams |-> JList(<<JObj([codec_name |-> JNull])>>)])],
     [text |-> "{\"streams\": [{\"codec_name\": \"mp3\"}, {\"codec_name\": \"aac\"}]}",
      ok |-> TRUE,
      value |-> JObj([streams |-> JList(<<JObj([codec_name |-> JStr("mp3")]),
                                          JObj([codec_name |-> JStr("aac")])>>)])],
     [text |-> "{\"streams\": [1]}", ok |-> TRUE,
      value |-> JObj([streams |-> JList(<<JNum("1")>>)])],
     [text |-> "{\"streams\": [\"aac\"]}", ok |-> TRUE,
      value |-> JObj([streams |-> JList(<<JStr("aac")>>)])],
     [text |-> "{\"streams\": [null]}", ok |-> TRUE,
      value |-> JObj([streams |-> JList(<<JNull>>)])],
     [text |-> "{\"streams\": [[]]}", ok |-> TRUE,
      value |-> JObj([streams |-> JList(<<JList(<<>>)>>)])]}

json_loads(text) == CHOOSE c \in json_cases : c.text = text

\* subprocess.run(cmd, check=True, capture_output=True, text=True) of ffprobe
run_ffprobe(env) ==
    IF ~env.present THEN Raise("FileNotFoundError", <<>>)
    ELSE IF env.exit # 0 THEN Raise("CalledProcessError", <<env.stderr>>)
    ELSE Return(JStr(env.stdout))

\* data['streams'][0]
first_stream(streams) ==
    CASE streams.t = "list" -> Return(streams.v[1])
      [] streams.t = "str"  -> Return(JStr("a"))  \* "aac"[0], the one string case
      [] streams.t = "obj"  -> Raise("KeyError", <<"0">>)
      [] OTHER              -> Raise("TypeError", <<"object is not subscriptable">>)

\* lines 41-45: the part of the try block after json.loads
read_codec(data) ==
    IF data.t # "obj" THEN Raise("AttributeError", <<"object has no attribute 'get'">>)
    ELSE IF ~JTruthy(DictGet(data, "streams", JNull))
    THEN Raise("RuntimeError", <<"No audio stream found in: ", "input_path">>)
    ELSE LET first == first_stream(data.v["streams"])
         IN IF first.kind = "raise" THEN first
            ELSE IF first.value.t # "obj"
            THEN Raise("AttributeError", <<"object has no attribute 'get'">>)
            ELSE Return(DictGet(first.value, "codec_name", JStr("unknown")))

\* an inspector for which an empty streams list is not a failure
get_audio_codec_unchecked(env) ==
    LET result == run_ffprobe(env)
    IN IF result.kind = "raise" /\ result.exc = "CalledProcessError"
       THEN Raise("RuntimeError", <<"ffprobe failed: ">> \o result.msg)
       ELSE IF result.kind = "raise" /\ result.exc = "FileNotFoundError"
       THEN Raise("RuntimeError",
                  <<"ffprobe not found. Please install ffmpeg:", install_guidance>>)
       ELSE LET parsed == json_loads(result.value.v)
            IN IF ~parsed.ok
               THEN Raise("RuntimeError", <<"Failed to parse ffprobe output: ", "JSONDecodeError">>)
               ELSE IF parsed.value.t = "obj"
                       /\ DictGet(parsed.value, "streams", JNull).t \in {"null", "list"}
                       /\ ~JTruthy(DictGet(parsed.value, "streams", JNull))
               THEN Return(JStr("unknown"))
               ELSE read_codec(parsed.value)

get_audio_codec(env) ==
    LET result == run_ffprobe(env)
    IN IF result.kind = "raise" /\ result.exc = "CalledProcessError"
       THEN Raise("RuntimeError", <<"ffprobe failed: ">> \o result.msg)
       ELSE IF result.kind = "raise" /\ result.exc = "FileNotFoundError"
       THEN Raise("RuntimeError",
                  <<"ffprobe not found. Please install ffmpeg:", install_guidance>>)
       ELSE LET parsed == json_loads(result.value.v)
            IN IF ~parsed.ok
               THEN Raise("RuntimeError", <<"Failed to parse ffprobe output: ", "JSONDecodeError">>)
               ELSE read_codec(parsed.value)

\* what ffprobe can do: be absent from PATH, exit non-zero (its stderr is
\* empty under -v quiet, or a message), or exit 0 with some standard output
ProbeEnvs ==
    {[present |-> FALSE, exit |-> 0, stdout |-> "", stderr |-> ""]}
    \cup {[present |-> TRUE, exit |-> 1, stdout |-> out, stderr |-> err] :
            out \in {"", "{}"}, err \in {"", "Invalid data found"}}
    \cup {[present |-> TRUE, exit |-> 0, stdout |-> c.text, stderr |-> ""] :
            c \in json_cases}

CodecInit ==
    /\ probeEnv \in ProbeEnvs
    /\ codecRet = NotCalled
    /\ extArg = ""
    /\ extRet = ""
    /\ PathIdle /\ EnvIdle /\ LibIdle /\ CliIdle

\* a caller invokes get_audio_codec(input_path)
CallGetAudioCodec ==
    /\ codecRet.kind = "none"
    /\ codecRet' = get_audio_codec(probeEnv)
    /\ UNCHANGED <<probeEnv, extArg, extRet, pathVars, envVars, libVars, cliVars>>

\* a caller invokes get_extension_for_codec(codec)
CallGetExtension ==
    /\ extRet = ""
    /\ \E codec \in CodecNames :
          /\ extArg' = codec
          /\ extRet' = get_extension_for_codec(codec)
    /\ UNCHANGED <<probeEnv, codecRet, pathVars, envVars, libVars, cliVars>>

CodecNext == CallGetAudioCodec \/ CallGetExtension

SpecCodec == CodecInit /\ [][CodecNext]_vars

\* the parsed standard output of a probe that exited 0 with valid JSON
ProbeExitedZero == probeEnv.present /\ probeEnv.exit = 0
ProbeData == json_loads(probeEnv.stdout)

\* the probe reports no audio stream: "streams" is missing or an empty list
ZeroStreams ==
    /\ ProbeExitedZero
    /\ ProbeData.ok
    /\ ProbeData.value.t = "obj"
    /\ \/ "streams" \notin DOMAIN ProbeData.value.v
       \/ ProbeData.value.v["streams"] = JList(<<>>)

\* the probe reports a first stream: "streams" is a list that starts with an object
FirstStreamReported ==
    /\ ProbeExitedZero
    /\ ProbeData.ok
    /\ ProbeData.value.t = "obj"
    /\ "streams" \in DOMAIN ProbeData.value.v
    /\ ProbeData.value.v["streams"].t = "list"
    /\ ProbeData.value.v["streams"].v # <<>>
    /\ ProbeData.value.v["streams"].v[1].t = "obj"

(***************************************************************************)
(* C6: when the probe reports zero audio streams (streams missing or       *)
(* empty) get_audio_codec raises the "No audio stream found" error and     *)
(* returns no codec; when a first stream is reported it returns that       *)
(* stream's codec_name, or "unknown" when the field is absent.             *)
(***************************************************************************)
C6_NoStreamOrFirstCodec ==
    codecRet.kind # "none" =>
        /\ ZeroStreams =>
              /\ codecRet.kind = "raise"
              /\ codecRet.exc = "RuntimeError"
              /\ codecRet.msg[1] = "No audio stream found in: "
        /\ FirstStreamReported =>
              LET stream == ProbeData.value.v["streams"].v[1]
              IN /\ codecRet.kind = "return"
                 /\ "codec_name" \in DOMAIN stream.v =>
                        codecRet.value = stream.v["codec_name"]
                 /\ "codec_name" \notin DOMAIN stream.v =>
                        codecRet.value = JStr("unknown")

C6_Witness ==
    /\ codecRet.kind = "raise"
    /\ probeEnv.stdout = "{\"streams\": []}"
    /\ ZeroStreams

(***************************************************************************)
(* C7: get_extension_for_codec returns the table's extension for each of   *)
(* the thirteen codecs of the table and .mka for every other string; it    *)
(* always returns.                                                         *)
(***************************************************************************)
C7_TableOrFallback ==
    extRet # "" =>
        extRet = CASE extArg = "aac"       -> ".m4a"
                   [] extArg = "mp3"       -> ".mp3"
                   [] extArg = "opus"      -> ".opus"
                   [] extArg = "vorbis"    -> ".ogg"
                   [] extArg = "flac"      -> ".flac"
                   [] extArg = "pcm_s16le" -> ".wav"
                   [] extArg = "pcm_s24le" -> ".wav"
                   [] extArg = "pcm_s32le" -> ".wav"
                   [] extArg = "alac"      -> ".m4a"
                   [] extArg = "ac3"       -> ".ac3"
                   [] extArg = "eac3"      -> ".eac3"
                   [] extArg = "dts"       -> ".dts"
                   [] extArg = "truehd"    -> ".thd"
                   [] OTHER                -> ".mka"

C7_Witness == extArg = "wmav2" /\ extRet = ".mka"

\* the probe exited 0 and its output is not structured data of the expected
\* shape (an object whose "streams", when present, is a list of objects)
Malformed ==
    /\ ProbeExitedZero
    /\ \/ ~ProbeData.ok
       \/ ProbeData.value.t # "obj"
       \/ /\ "streams" \in DOMAIN ProbeData.value.v
          /\ \/ ProbeData.value.v["streams"].t # "list"
             \/ \E i \in 1..Len(ProbeData.value.v["streams"].v) :
                   ProbeData.value.v["streams"].v[i].t # "obj"

(***************************************************************************)
(* C10: every failure of get_audio_codec is one of the listed error kinds: *)
(* probe missing -> the tool-not-found error with installation guidance;   *)
(* probe exits non-zero -> the error embedding its stderr; probe exits 0   *)
(* with malformed output -> the parse error, and no other kind of          *)
(* exception is raised.                                                    *)
(***************************************************************************)
C10_FailuresAreListedKinds ==
    codecRet.kind # "none" =>
        /\ ~probeEnv.present =>
              /\ codecRet.kind = "raise"
              /\ codecRet.exc = "RuntimeError"
              /\ codecRet.msg[2] = install_guidance
        /\ (probeEnv.present /\ probeEnv.exit # 0) =>
              codecRet = Raise("RuntimeError", <<"ffprobe failed: ", probeEnv.stderr>>)
        /\ Malformed =>
              /\ codecRet.kind = "raise"
              /\ codecRet.exc = "RuntimeError"
              /\ codecRet.msg[1] = "Failed to parse ffprobe output: "

(***************************************************************************)
(* extractor.extract_audio                                                 *)
(***************************************************************************)
\* the ffmpeg command line; the two paths are kept beside the argument list
ffmpeg_cmd_no_overwrite(input_file, output_file) ==
    [argv |-> <<"ffmpeg", "-i", "{input_file}", "-vn", "-acodec", "pcm_s16le",
                "-ar", "44100", "-ac", "2", "{output_file}">>,
     input |-> StrOf(input_file), output |-> StrOf(output_file)]

ffmpeg_cmd(input_file, output_file) ==
    [argv |-> <<"ffmpeg", "-i", "{input_file}", "-vn", "-acodec", "pcm_s16le",
                "-ar", "44100", "-ac", "2", "-y", "{output_file}">>,
     input |-> StrOf(input_file), output |-> StrOf(output_file)]

HasArg(cmd, arg) == \E i \in 1..Len(cmd.argv) : cmd.argv[i] = arg

\* the value following option opt on the command line, "" when opt is absent
ArgAfter(cmd, opt) ==
    IF \E i \in 1..(Len(cmd.argv) - 1) : cmd.argv[i] = opt
    THEN cmd.argv[(CHOOSE i \in 1..(Len(cmd.argv) - 1) : cmd.argv[i] = opt) + 1]
    ELSE ""

\* output_file.parent.mkdir(parents=True, exist_ok=True): a missing parent
\* is created, an existing directory is accepted, and a parent that exists
\* as a regular file raises FileExistsError
mkdir_parents(f) ==
    IF f.parent = "file"
    THEN [result |-> Raise("FileExistsError", <<"File exists: ", "{parent}">>), fs |-> f]
    ELSE [result |-> Return(JNull), fs |-> [f EXCEPT !.parent = "dir"]]

\* subprocess.run(cmd, check=True, capture_output=True, text=True) of ffmpeg.
\* Without the executable nothing runs and FileNotFoundError is raised.
\* ffmpeg refuses an existing output unless -y is given; otherwise it exits
\* 0 having written the output, or exits non-zero and leaves either nothing
\* new ("fail_early") or a truncated output ("fail_partial").  It cannot
\* write to an output path that is a directory.
run_ffmpeg(cmd, f, t) ==
    IF ~t.present
    THEN [result |-> Raise("FileNotFoundError", <<>>), fs |-> f, spawned |-> <<>>]
    ELSE IF f.output = "dir"
    THEN [result |-> Raise("CalledProcessError", <<"Is a directory">>),
          fs |-> f, spawned |-> <<cmd>>]
    ELSE IF f.output = "file" /\ ~HasArg(cmd, "-y")
    THEN [result |-> Raise("CalledProcessError", <<"already exists. Exiting.">>),
          fs |-> f, spawned |-> <<cmd>>]
    ELSE IF t.outcome = "ok"
    THEN [result |-> Return(JNull), fs |-> [f EXCEPT !.output = "file"],
          spawned |-> <<cmd>>]
    ELSE IF t.outcome = "fail_partial"
    THEN [result |-> Raise("CalledProcessError", <<"Conversion failed!">>),
          fs |-> [f EXCEPT !.output = "file"], spawned |-> <<cmd>>]
    ELSE [result |-> Raise("CalledProcessError", <<"Invalid data found">>),
          fs |-> f, spawned |-> <<cmd>>]

\* lines 124-142: the try block around subprocess.run
try_run_ffmpeg(cmd, f, t) ==
    LET r == run_ffmpeg(cmd, f, t)
    IN IF r.result.kind = "raise" /\ r.result.exc = "CalledProcessError"
       THEN [r EXCEPT !.result =
                Raise("RuntimeError",
                      <<"Audio extraction failed:", "STDERR: ">> \o r.result.msg
                          \o <<"Command: ">> \o cmd.argv)]
       ELSE IF r.result.kind = "raise" /\ r.result.exc = "FileNotFoundError"
       THEN [r EXCEPT !.result =
                Raise("RuntimeError",
                      <<"ffmpeg not found. Please install ffmpeg:", install_guidance>>)]
       ELSE r

\* an extractor that checks is_file() before exists()
extract_audio_file_check_first(input_path, out_path, f, t) ==
    IF f.input # "file"
    THEN [result |-> Raise("ValueError", <<"Input path is not a file: ", "{input_path}">>),
          fs |-> f, spawned |-> <<>>]
    ELSE LET made == mkdir_parents(f)
         IN IF made.result.kind = "raise"
            THEN [result |-> made.result, fs |-> made.fs, spawned |-> <<>>]
            ELSE try_run_ffmpeg(ffmpeg_cmd(PathOf(input_path), PathOf(out_path)),
                                made.fs, t)

\* an extractor that looks for the tool only after spawning is attempted:
\* it reports a missing executable as a failed run
extract_audio_tool_failed(input_path, out_path, f, t) ==
    IF f.input = "missing"
    THEN [result |-> Raise("FileNotFoundError", <<"Input file not found: ", "{input_path}">>),
          fs |-> f, spawned |-> <<>>]
    ELSE IF f.input # "file"
    THEN [result |-> Raise("ValueError", <<"Input path is not a file: ", "{input_path}">>),
          fs |-> f, spawned |-> <<>>]
    ELSE LET made == mkdir_parents(f)
             cmd  == ffmpeg_cmd(PathOf(input_path), PathOf(out_path))
         IN IF made.result.kind = "raise"
            THEN [result |-> made.result, fs |-> made.fs, spawned |-> <<>>]
            ELSE IF ~t.present
            THEN [result |-> Raise("RuntimeError",
                                   <<"Audio extraction failed:", "STDERR: ", "Command: ">>),
                  fs |-> made.fs, spawned |-> <<cmd>>]
            ELSE try_run_ffmpeg(cmd, made.fs, t)

\* extract_audio(input_path, out_path) on file system f with tool t:
\* how the call ends, the file system it leaves and the processes it spawned
extract_audio(input_path, out_path, f, t) ==
    IF f.input = "missing"
    THEN [result |-> Raise("FileNotFoundError", <<"Input file not found: ", "{input_path}">>),
          fs |-> f, spawned |-> <<>>]
    ELSE IF f.input # "file"
    THEN [result |-> Raise("ValueError", <<"Input path is not a file: ", "{input_path}">>),
          fs |-> f, spawned |-> <<>>]
    ELSE LET made == mkdir_parents(f)
         IN IF made.result.kind = "raise"
            THEN [result |-> made.result, fs |-> made.fs, spawned |-> <<>>]
            ELSE try_run_ffmpeg(ffmpeg_cmd(PathOf(input_path), PathOf(out_path)),
                                made.fs, t)

\* the file systems a call can meet: an output exists only in a directory,
\* and a path without components ('.', '/') is an existing directory
FileSystems(input_path, out_path) ==
    {f \in [input : {"missing", "dir", "file"}, parent : {"missing", "dir", "file"},
            output : {"missing", "file", "dir"}] :
        /\ f.output # "missing" => f.parent = "dir"
        /\ PathOf(input_path).parts = <<>> => f.input = "dir"
        /\ Parent(PathOf(out_path)).parts = <<>> => f.parent = "dir"
        /\ PathOf(out_path).parts = <<>> => f.output = "dir"}

Tools ==
    {[present |-> FALSE, outcome |-> "ok"]}
    \cup {[present |-> TRUE, outcome |-> o] : o \in {"ok", "fail_early", "fail_partial"}}

ExtractInputs == {movie_mkv, m_wav, <<>>, <<"/">>, <<"a","/">>}
ExtractOutputs == {movie_wav, out_mp3, m_wav, abs_dir, <<>>}

ExtractInit ==
    /\ exIn \in ExtractInputs
    /\ exOut \in ExtractOutputs
    /\ fs \in FileSystems(exIn, exOut)
    /\ tool \in Tools
    /\ spawned = <<>>
    /\ calls = <<>>
    /\ PathIdle /\ CodecIdle /\ CliIdle

\* the client invokes extract_audio(exIn, exOut)
CallExtractAudio ==
    /\ Len(calls) < MaxCalls
    /\ LET r == extract_audio(exIn, exOut, fs, tool)
       IN /\ calls' = Append(calls, [input |-> exIn, output |-> exOut,
                                     before |-> fs, result |-> r.result,
                                     spawned |-> r.spawned])
          /\ fs' = r.fs
          /\ spawned' = spawned \o r.spawned
    /\ UNCHANGED <<tool, exIn, exOut, pathVars, codecVars, cliVars>>

ExtractNext == CallExtractAudio

SpecExtract == ExtractInit /\ [][ExtractNext]_vars

(***************************************************************************)
(* C1: extract_audio on a missing input raises FileNotFoundError, on an    *)
(* existing input that is not a regular file raises ValueError (existence  *)
(* is checked first), and in both cases no external process is spawned.    *)
(***************************************************************************)
C1_InputValidatedBeforeSpawn ==
    \A i \in 1..Len(calls) :
        /\ calls[i].before.input = "missing" =>
              /\ calls[i].result.kind = "raise"
              /\ calls[i].result.exc = "FileNotFoundError"
              /\ calls[i].spawned = <<>>
        /\ calls[i].before.input = "dir" =>
              /\ calls[i].result.kind = "raise"
              /\ calls[i].result.exc = "ValueError"
              /\ calls[i].spawned = <<>>
        /\ calls[i].before.input # "file" => spawned = <<>> /\ fs = calls[i].before

C1_Witness ==
    /\ Len(calls) = 1
    /\ calls[1].before.input = "missing"
    /\ tool.present
    /\ calls[1].result.exc = "FileNotFoundError"

(***************************************************************************)
(* C8: extract_audio run twice on the same input/output pair succeeds both *)
(* times: every command carries the overwrite flag -y, so the second run,  *)
(* which finds the output file and its parent directory in place, does not *)
(* fail but overwrites the output.                                         *)
(***************************************************************************)
C8_SecondRunSucceeds ==
    /\ \A i \in 1..Len(spawned) : HasArg(spawned[i], "-y")
    /\ \A i \in 1..Len(calls) : \A j \in 1..Len(calls) :
          (i < j /\ calls[i].result.kind = "return") =>
              /\ calls[j].before.output = "file"
              /\ calls[j].before.parent = "dir"
              /\ calls[j].result.kind = "return"
              /\ fs.output = "file"

C8_Witness ==
    /\ Len(calls) = 2
    /\ calls[1].before.parent = "missing"
    /\ calls[1].result.kind = "return"
    /\ calls[2].result.kind = "return"
    /\ Len(spawned) = 2

(***************************************************************************)
(* __main__.main                                                           *)
(***************************************************************************)
\* parser.parse_args(): -h/--help prints the help and exits 0; a missing
\* --input or an unrecognized argument prints the usage and exits 2
parse_args(a) ==
    IF a.help THEN "help"
    ELSE IF ~a.input.given \/ a.extra THEN "usage"
    ELSE "ok"

\* a front end that passes --output on as given
resolve_output_as_given(a) ==
    IF Truthy(a.output)
    THEN [result |-> Return(JNull), path |-> StrOf(PathOf(a.output.val))]
    ELSE [result |-> Return(JNull), path |-> get_output_path(a.input.val, None)]

\* lines 33-37: the output path, or the ValueError of with_suffix
resolve_output(a) ==
    IF Truthy(a.output)
    THEN LET w == WithSuffix(PathOf(a.output.val), dot_wav)
         IN IF w.ok
            THEN [result |-> Return(JNull), path |-> StrOf(w.path)]
            ELSE [result |-> Raise("ValueError", <<"{path}", " has an empty name">>),
                  path |-> <<>>]
    ELSE [result |-> Return(JNull), path |-> get_output_path(a.input.val, None)]

\* the except clauses of main that print "Error: ..." and exit 1
Handled == {"FileNotFoundError", "ValueError", "RuntimeError"}

\* a front end without the KeyboardInterrupt clause
exit_status_interrupt_uncaught(r) ==
    IF r.kind = "return" THEN 0 ELSE 1

\* the exit status of the process for the way the try block ended; an
\* exception no clause catches ends the interpreter with a traceback and 1
exit_status(r) ==
    IF r.kind = "return" THEN 0
    ELSE IF r.exc \in Handled THEN 1
    ELSE IF r.exc = "KeyboardInterrupt" THEN 130
    ELSE 1

\* what reaches standard error for the way the try block ended
error_output(r) ==
    IF r.kind = "return" THEN <<>>
    ELSE IF r.exc \in Handled THEN << <<"Error: ">> \o r.msg >>
    ELSE IF r.exc = "KeyboardInterrupt" THEN << <<"Operation cancelled by user">> >>
    ELSE << <<"Traceback (most recent call last):", r.exc>> >>

\* the try block ends with r: handlers, then the process exits
Finish(r) ==
    /\ raised' = r
    /\ exit_code' = exit_status(r)
    /\ stderr' = stderr \o error_output(r)
    /\ pc' = "exited"

CliInputs == {movie_mkv, clip_tar_gz, m_wav}

CliOutputs ==
    {None} \cup {Some(o) : o \in StrUpTo(MaxOutLen)
                               \cup {out_mp3, m_wav, out_WAV, clip_tar_gz, abs_dir}}

Argvs ==
    {[help |-> TRUE, extra |-> FALSE, input |-> None, output |-> None],
     [help |-> FALSE, extra |-> FALSE, input |-> None, output |-> None],
     [help |-> FALSE, extra |-> FALSE, input |-> None, output |-> Some(m_wav)],
     [help |-> FALSE, extra |-> TRUE, input |-> Some(movie_mkv), output |-> None]}
    \cup {[help |-> FALSE, extra |-> FALSE, input |-> Some(i), output |-> o] :
            i \in CliInputs, o \in CliOutputs}

\* the output path main would hand to extract_audio, '' when it gets nowhere
WouldExtractTo(a) ==
    IF parse_args(a) = "ok" /\ resolve_output(a).result.kind = "return"
    THEN resolve_output(a).path ELSE <<>>

Init ==
    /\ argv \in Argvs
    /\ fs \in FileSystems(argv.input.val, WouldExtractTo(argv))
    /\ tool \in Tools
    /\ spawned = <<>>
    /\ calls = <<>>
    /\ pc = "parse_args"
    /\ output_path = None
    /\ raised = NotCalled
    /\ exit_code = -1
    /\ stdout = <<>>
    /\ stderr = <<>>
    /\ PathIdle /\ CodecIdle /\ LibIdle

\* line 29
ParseArgs ==
    /\ pc = "parse_args"
    /\ \/ /\ parse_args(argv) = "help"
          /\ stdout' = <<"usage: audioleft [-h] --input INPUT [--output OUTPUT]">>
          /\ exit_code' = 0
          /\ pc' = "exited"
          /\ UNCHANGED stderr
       \/ /\ parse_args(argv) = "usage"
          /\ stderr' = << <<"usage: audioleft [-h] --input INPUT [--output OUTPUT]",
                            "audioleft: error: ">> >>
          /\ exit_code' = 2
          /\ pc' = "exited"
          /\ UNCHANGED stdout
       \/ /\ parse_args(argv) = "ok"
          /\ pc' = "resolve"
          /\ UNCHANGED <<exit_code, stdout, stderr>>
    /\ UNCHANGED <<argv, output_path, raised, envVars, libVars, pathVars, codecVars>>

\* lines 33-41
ResolveOutput ==
    /\ pc = "resolve"
    /\ LET r == resolve_output(argv)
       IN \/ /\ r.result.kind = "return"
             /\ output_path' = Some(r.path)
             /\ stdout' = stdout \o <<"Input:  {args.input}", "Output: {output_path}",
                                       "Extracting audio...">>
             /\ pc' = "extract"
             /\ UNCHANGED <<raised, exit_code, stderr>>
          \/ /\ r.result.kind = "raise"
             /\ Finish(r.result)
             /\ UNCHANGED <<output_path, stdout>>
    /\ UNCHANGED <<argv, envVars, libVars, pathVars, codecVars>>

\* lines 44-56: the call of extract_audio, the success line or the handler
Extract ==
    /\ pc = "extract"
    /\ LET r == extract_audio(argv.input.val, output_path.val, fs, tool)
       IN /\ calls' = Append(calls, [input |-> argv.input.val,
                                     output |-> output_path.val,
                                     before |-> fs, result |-> r.result,
                                     spawned |-> r.spawned])
          /\ fs' = r.fs
          /\ spawned' = spawned \o r.spawned
          /\ Finish(r.result)
          /\ stdout' = IF r.result.kind = "return"
                       THEN Append(stdout, "Audio extraction completed successfully!")
                       ELSE stdout
    /\ UNCHANGED <<argv, output_path, tool, libVars, pathVars, codecVars>>

\* lines 57-59: the user interrupts the try block outside subprocess.run
Interrupt ==
    /\ pc \in {"resolve", "extract"}
    /\ Finish(Raise("KeyboardInterrupt", <<>>))
    /\ UNCHANGED <<argv, output_path, stdout, envVars, libVars, pathVars, codecVars>>

\* lines 57-59: the user interrupts while ffmpeg runs; subprocess.run kills
\* the child, which may have started writing the output
InterruptFfmpeg ==
    /\ pc = "extract"
    /\ LET r == extract_audio(argv.input.val, output_path.val, fs, tool)
       IN /\ r.spawned # <<>>
          /\ calls' = Append(calls, [input |-> argv.input.val,
                                     output |-> output_path.val,
                                     before |-> fs,
                                     result |-> Raise("KeyboardInterrupt", <<>>),
                                     spawned |-> r.spawned])
          /\ \E o \in {fs.output, r.fs.output} : fs' = [r.fs EXCEPT !.output = o]
          /\ spawned' = spawned \o r.spawned
    /\ Finish(Raise("KeyboardInterrupt", <<>>))
    /\ UNCHANGED <<argv, output_path, stdout, tool, libVars, pathVars, codecVars>>

Next == ParseArgs \/ ResolveOutput \/ Extract \/ Interrupt \/ InterruptFfmpeg

Spec == Init /\ [][Next]_vars

\* extraction succeeded: extract_audio was called and returned
ExtractionSucceeded ==
    /\ Len(calls) = 1
    /\ calls[1].result.kind = "return"

(***************************************************************************)
(* C2 as stated: main ends with exit code 0 exactly when extraction        *)
(* succeeded, with 1 when a file-not-found, invalid-argument or            *)
(* runtime/tool failure occurred (after a message on standard error), with *)
(* 130 on user interrupt, and with no other exit code.                     *)
(***************************************************************************)
C2_ExitCodesAsStated ==
    pc = "exited" =>
        /\ exit_code \in {0, 1, 130}
        /\ exit_code = 0 <=> ExtractionSucceeded
        /\ (raised.kind = "raise" /\ raised.exc \in Handled) =>
              exit_code = 1 /\ stderr # <<>>
        /\ (raised.kind = "raise" /\ raised.exc = "KeyboardInterrupt") =>
              exit_code = 130

(***************************************************************************)
(* C2 as amended: a run whose command line argparse rejects ends with exit *)
(* code 2 and a run with -h/--help ends with exit code 0, both before any  *)
(* extraction; every other run ends with exit code 0 exactly when          *)
(* extraction succeeded, with 1 when an exception other than the user      *)
(* interrupt was raised (FileNotFoundError, ValueError and RuntimeError    *)
(* after an "Error: ..." message on standard error), and with 130 on user  *)
(* interrupt; no other exit code results.                                  *)
(***************************************************************************)
C2_ExitCodes ==
    pc = "exited" =>
        /\ exit_code \in {0, 1, 2, 130}
        /\ exit_code = 2 <=> (~argv.help /\ (~argv.input.given \/ argv.extra))
        /\ exit_code = 0 <=> (argv.help \/ ExtractionSucceeded)
        /\ exit_code = 0 /\ ~argv.help =>
              /\ fs.output = "file"
              /\ Len(spawned) = 1
              /\ tool.present /\ tool.outcome = "ok"
              /\ stderr = <<>>
        /\ exit_code \in {0, 2} /\ ~ExtractionSucceeded => calls = <<>> /\ spawned = <<>>
        /\ exit_code = 1 <=> (raised.kind = "raise" /\ raised.exc # "KeyboardInterrupt")
        /\ (raised.kind = "raise" /\ raised.exc \in Handled) =>
              /\ exit_code = 1
              /\ stderr = << <<"Error: ">> \o raised.msg >>
        /\ exit_code = 130 <=> (raised.kind = "raise" /\ raised.exc = "KeyboardInterrupt")
        /\ exit_code = 130 => stderr = << <<"Operation cancelled by user">> >>

C2_Witness ==
    /\ pc = "exited"
    /\ exit_code = 130
    /\ Len(spawned) = 1
    /\ tool.present

(***************************************************************************)
(* C3: an --output value is handed to extract_audio with its extension     *)
(* rewritten to .wav, the rewrite being done before extraction is invoked; *)
(* every path handed to extraction ends in .wav.                           *)
(***************************************************************************)
C3_OutputForcedToWav ==
    /\ pc = "extract" => EndsWith(output_path.val, dot_wav)
    /\ \A i \in 1..Len(calls) :
          /\ calls[i].output = output_path.val
          /\ EndsWith(calls[i].output, dot_wav)
          /\ Truthy(argv.output) =>
                LET given == StrOf(PathOf(argv.output.val))
                    old   == Suffix(PathOf(argv.output.val))
                IN /\ calls[i].output =
                         SubSeq(given, 1, Len(given) - Len(old)) \o dot_wav
                   /\ Suffix(PathOf(calls[i].output)) = dot_wav
                   /\ Parent(PathOf(calls[i].output)) = Parent(PathOf(argv.output.val))
          /\ \A k \in 1..Len(calls[i].spawned) :
                calls[i].spawned[k].output = calls[i].output

C3_Witness ==
    /\ Len(calls) = 1
    /\ argv.output = Some(out_mp3)
    /\ calls[1].output = <<"o","u","t","/","m",".","w","a","v">>
    /\ Len(spawned) = 1

\* ffmpeg is absent from PATH and extract_audio was called on a regular file
ToolMissingCall(i) ==
    /\ ~tool.present
    /\ calls[i].before.input = "file"

\* the call ended in the "ffmpeg not found" error, nothing was run, and the
\* process exits with 1
ToolMissingOutcome(i) ==
    /\ calls[i].result.kind = "raise"
    /\ calls[i].result.exc = "RuntimeError"
    /\ calls[i].result.msg = <<"ffmpeg not found. Please install ffmpeg:", install_guidance>>
    /\ calls[i].spawned = <<>>
    /\ spawned = <<>>
    /\ pc = "exited" /\ exit_code = 1
    /\ stderr = << <<"Error: ", "ffmpeg not found. Please install ffmpeg:", install_guidance>> >>

(***************************************************************************)
(* C5 as stated: with ffmpeg absent from PATH, any extraction call on a    *)
(* valid input file fails with the RuntimeError that carries the           *)
(* installation guidance, no external process is run, and the CLI exits    *)
(* with code 1.                                                            *)
(***************************************************************************)
C5_ToolMissingAsStated ==
    \A i \in 1..Len(calls) : ToolMissingCall(i) => ToolMissingOutcome(i)

(***************************************************************************)
(* C5 as amended: with ffmpeg absent from PATH, any extraction call on a   *)
(* valid input file whose output directory exists or can be created fails  *)
(* with the RuntimeError that carries the installation guidance, no        *)
(* external process is run, and the CLI exits with code 1; when the        *)
(* output's parent exists as a regular file the call fails earlier, in     *)
(* mkdir, with FileExistsError, still without running a process and still  *)
(* with exit code 1.                                                       *)
(***************************************************************************)
C5_ToolMissing ==
    \A i \in 1..Len(calls) :
        ToolMissingCall(i) =>
            /\ calls[i].before.parent # "file" => ToolMissingOutcome(i)
            /\ calls[i].before.parent = "file" =>
                  /\ calls[i].result.kind = "raise"
                  /\ calls[i].result.exc = "FileExistsError"
                  /\ spawned = <<>>
                  /\ pc = "exited" /\ exit_code = 1

C5_Witness ==
    /\ Len(calls) = 1
    /\ ToolMissingCall(1)
    /\ calls[1].before.parent = "missing"
    /\ fs.parent = "dir"
    /\ ToolMissingOutcome(1)

(***************************************************************************)
(* C9: the output path resolved without --output keeps the input's         *)
(* extension (movie.mkv gives <default_dir>/movie.mkv), and the extraction *)
(* it feeds copies the audio stream without re-encoding, preserving the    *)
(* original codec as the CLI's description promises.                       *)
(***************************************************************************)
C9_CopyKeepsExtension ==
    /\ (output_path.given /\ ~Truthy(argv.output)) =>
          /\ Suffix(PathOf(output_path.val)) = Suffix(PathOf(argv.input.val))
          /\ argv.input.val = movie_mkv =>
                output_path.val = StrOf(default_output_dir) \o <<"/">> \o movie_mkv
    /\ \A k \in 1..Len(spawned) : ArgAfter(spawned[k], "-acodec") = "copy"

====
